---- MODULE Spec2Model ----
(***************************************************************************)
(* A model of precondition.py: the text rewriter (precondition), the graph *)
(* normalizer (postcondition) and their helpers.  Text is modelled as a    *)
(* sequence of one-character strings, so that the regular expressions and  *)
(* the string operations of the source are computed character by          *)
(* character, as the source computes them.                                 *)
(***************************************************************************)
EXTENDS Integers, Sequences, FiniteSets, TLC

VARIABLES
    pc,            \* the position of the run
    inp,           \* the arguments, as given
    text,          \* the text as rewritten so far
    result,        \* what the operation returned or raised
    graph,         \* postcondition: the triples not yet visited
    context,       \* postcondition: prefix -> expansion
    new_graph,     \* postcondition: the graph under construction
    line_numbers,  \* postcondition: subject -> line number
    hist           \* for each visited triple, the object it was given

vars == <<pc, inp, text, result, graph, context, new_graph, line_numbers, hist>>

postVars == <<graph, context, new_graph, line_numbers, hist>>

----------------------------------------------------------------------------
(* Characters and character classes                                        *)

Q == "\""

NL == "\n"

Lower == {"a","b","c","d","e","f","g","h","i","j","k","l","m",
          "n","o","p","q","r","s","t","u","v","w","x","y","z"}

Upper == {"A","B","C","D","E","F","G","H","I","J","K","L","M",
          "N","O","P","Q","R","S","T","U","V","W","X","Y","Z"}

Digits == {"0","1","2","3","4","5","6","7","8","9"}

\* \w of the re module, restricted to the characters the model uses
WordChars == Lower \cup Upper \cup Digits \cup {"_"}

\* \s of the re module, restricted to the characters the model uses
SpaceChars == {" ", NL}

----------------------------------------------------------------------------
(* Generic string helpers                                                  *)

\* s[i:] has pat as a prefix (i is 1-based)
StartsWithAt(s, i, pat) ==
    /\ i >= 1
    /\ i + Len(pat) - 1 <= Len(s)
    /\ SubSeq(s, i, i + Len(pat) - 1) = pat

\* pat occurs somewhere in s
Contains(s, pat) == \E i \in 1..(Len(s) + 1) : StartsWithAt(s, i, pat)

\* the characters of s from position i to the end
From(s, i) == SubSeq(s, i, Len(s))

RECURSIVE Concat(_)
Concat(ss) == IF ss = <<>> THEN <<>> ELSE Head(ss) \o Concat(Tail(ss))

\* all sequences of at most n elements of S
RECURSIVE SeqsUpTo(_, _)
SeqsUpTo(S, n) ==
    IF n = 0 THEN {<<>>}
    ELSE LET shorter == SeqsUpTo(S, n - 1)
         IN shorter \cup {Append(s, x) : s \in shorter, x \in S}

\* all texts made of at most n of the given pieces
TextsOf(pieces, n) == {Concat(ps) : ps \in SeqsUpTo(pieces, n)}

----------------------------------------------------------------------------
(* str() and int() of Python, on non-negative / arbitrary decimal text     *)

DigitChar == <<"0","1","2","3","4","5","6","7","8","9">>

DigitVal(c) == CHOOSE d \in 0..9 : DigitChar[d + 1] = c

\* str(n) for n >= 0
RECURSIVE Str(_)
Str(n) == IF n < 10 THEN <<DigitChar[n + 1]>>
          ELSE Str(n \div 10) \o <<DigitChar[(n % 10) + 1]>>

RECURSIVE StripLeft(_)
StripLeft(s) == IF s # <<>> /\ Head(s) \in SpaceChars THEN StripLeft(Tail(s)) ELSE s

RECURSIVE StripRight(_)
StripRight(s) ==
    IF s # <<>> /\ s[Len(s)] \in SpaceChars
    THEN StripRight(SubSeq(s, 1, Len(s) - 1)) ELSE s

RECURSIVE DigitsValue(_, _)
DigitsValue(s, acc) ==
    IF s = <<>> THEN acc
    ELSE IF Head(s) = "_" THEN DigitsValue(Tail(s), acc)
    ELSE DigitsValue(Tail(s), 10 * acc + DigitVal(Head(s)))

\* int(s): surrounding whitespace stripped, an optional sign, then decimal
\* digits that single underscores may separate; anything else is a ValueError
PyInt(s) ==
    LET t    == StripRight(StripLeft(s))
        neg  == t # <<>> /\ Head(t) = "-"
        body == IF t # <<>> /\ Head(t) \in {"-", "+"} THEN Tail(t) ELSE t
        ok   == /\ body # <<>>
                /\ \A i \in 1..Len(body) : body[i] \in Digits \cup {"_"}
                /\ body[1] # "_"
                /\ body[Len(body)] # "_"
                /\ \A i \in 1..(Len(body) - 1) : ~(body[i] = "_" /\ body[i + 1] = "_")
    IN IF ~ok THEN [err |-> TRUE, val |-> 0]
       ELSE [err |-> FALSE,
             val |-> IF neg THEN 0 - DigitsValue(body, 0) ELSE DigitsValue(body, 0)]

----------------------------------------------------------------------------
(* Line-number codec                                                       *)

SEP == <<"_","L","I","N","E","_">>

\* the encoding of embed_line_numbers: value + "_LINE_" + str(n)
Encode(v, n) == v \o SEP \o Str(n)

\* str.split(sep): every non-overlapping occurrence, found from the left
RECURSIVE SplitLeft(_, _)
SplitLeft(s, sep) ==
    IF ~Contains(s, sep) THEN <<s>>
    ELSE LET i == CHOOSE k \in 1..Len(s) :
                     /\ StartsWithAt(s, k, sep)
                     /\ \A j \in 1..(k - 1) : ~StartsWithAt(s, j, sep)
         IN <<SubSeq(s, 1, i - 1)>> \o SplitLeft(From(s, i + Len(sep)), sep)

\* str.rsplit(sep) without maxsplit: every non-overlapping occurrence of sep,
\* found from the right, is a split point
RECURSIVE RSplit(_, _)
RSplit(s, sep) ==
    IF ~Contains(s, sep) THEN <<s>>
    ELSE LET i == CHOOSE k \in 1..Len(s) :
                     /\ StartsWithAt(s, k, sep)
                     /\ \A j \in (k + 1)..Len(s) : ~StartsWithAt(s, j, sep)
         IN RSplit(SubSeq(s, 1, i - 1), sep) \o <<From(s, i + Len(sep))>>

\* extract_line_number with the pieces found by the given splitter
ExtractWith(parts, s) ==
    IF Len(parts) = 1
    THEN [err |-> FALSE, stripped |-> s, none |-> TRUE, number |-> 0]
    ELSE LET n == PyInt(parts[2])
         IN IF n.err
            THEN [err |-> TRUE, stripped |-> <<>>, none |-> TRUE, number |-> 0]
            ELSE [err |-> FALSE, stripped |-> parts[1], none |-> FALSE, number |-> n.val]

extract_line_number_leftsplit(s) == ExtractWith(SplitLeft(s, SEP), s)

extract_line_number(s) == ExtractWith(RSplit(s, SEP), s)

----------------------------------------------------------------------------
(* Values the variables hold while an operation does not use them          *)

NoResult == [err |-> FALSE]

EmptyTable == [s \in {} |-> 0]

PostIdle ==
    /\ graph = {}
    /\ context = EmptyTable
    /\ new_graph = {}
    /\ line_numbers = EmptyTable
    /\ hist = {}

----------------------------------------------------------------------------
(* The codec on its own: encode a value as embed_line_numbers does, then   *)
(* decode it with extract_line_number; or decode a text as it is.          *)

MaxParts == 3

MaxLineNo == 11

CodecPieces == {<<"x">>, <<"_">>, <<"1">>, <<"_","L","I","N","E">>, SEP}

InitCodec ==
    /\ pc = "start"
    /\ inp \in [value : TextsOf(CodecPieces, MaxParts), n : 0..MaxLineNo]
    /\ text = inp.value
    /\ result = NoResult
    /\ PostIdle

\* lines 226-230: the value, then _LINE_, then the decimal line number
EmbedSuffix ==
    /\ pc = "start"
    /\ text' = Encode(text, inp.n)
    /\ pc' = "encoded"
    /\ UNCHANGED <<inp, result, postVars>>

\* lines 109-122, applied to a text that was not encoded
ExtractRaw ==
    /\ pc = "start"
    /\ result' = extract_line_number(text)
    /\ pc' = "decoded"
    /\ UNCHANGED <<inp, text, postVars>>

\* lines 109-122, applied to an encoded value
ExtractEncoded ==
    /\ pc = "encoded"
    /\ result' = extract_line_number(text)
    /\ pc' = "roundtrip"
    /\ UNCHANGED <<inp, text, postVars>>

NextCodec == EmbedSuffix \/ ExtractRaw \/ ExtractEncoded

SpecCodec == InitCodec /\ [][NextCodec]_vars

\* the position of the last occurrence of sep in s (s contains sep)
LastIndexOf(s, sep) ==
    CHOOSE k \in 1..Len(s) :
        /\ StartsWithAt(s, k, sep)
        /\ \A j \in (k + 1)..Len(s) : ~StartsWithAt(s, j, sep)

\* C4: decoding the encoding of (v, n), for v without the separator and
\* n >= 0, returns exactly (v, n), also when v ends with a proper prefix of
\* the separator.
C4_CodecRoundTrip ==
    (pc = "roundtrip" /\ ~Contains(inp.value, SEP)) =>
        result = [err |-> FALSE, stripped |-> inp.value, none |-> FALSE, number |-> inp.n]

C4_Witness ==
    /\ pc = "roundtrip"
    /\ inp.value = <<"x","_","L","I","N","E">>
    /\ inp.n = 10
    /\ text = <<"x","_","L","I","N","E","_","L","I","N","E","_","1","0">>
    /\ result.stripped = inp.value
    /\ result.number = 10

\* C5: a text with one or more separators decodes to (the part before the
\* LAST separator, the integer after it); a text without separator decodes
\* to (text, None).
C5_SplitsOnLastSeparator ==
    pc \in {"decoded", "roundtrip"} =>
        IF Contains(text, SEP)
        THEN LET i == LastIndexOf(text, SEP)
                 n == PyInt(From(text, i + Len(SEP)))
             IN IF n.err THEN result.err
                ELSE result = [err |-> FALSE, stripped |-> SubSeq(text, 1, i - 1),
                               none |-> FALSE, number |-> n.val]
        ELSE result = [err |-> FALSE, stripped |-> text, none |-> TRUE, number |-> 0]

----------------------------------------------------------------------------
(* Prefix allocator: autogenerate_empty_prefix and PrefixGenerator         *)

\* r'(\w{n}):' matches at position i of s
PrefixMatchAt(s, i, n) ==
    /\ i + n <= Len(s)
    /\ \A j \in i..(i + n - 1) : s[j] \in WordChars
    /\ s[i + n] = ":"

\* the least element of a non-empty set of numbers
Min(S) == CHOOSE x \in S : \A y \in S : x <= y

\* re.findall(r'(\w{n}):', s) from position i: the scan goes to the
\* leftmost match, takes it, and goes on after it; the matches as a set
RECURSIVE findall_prefixes(_, _, _)
findall_prefixes(s, i, n) ==
    LET M == {k \in i..Len(s) : PrefixMatchAt(s, k, n)}
    IN IF M = {} THEN {}
       ELSE {SubSeq(s, Min(M), Min(M) + n - 1)} \cup findall_prefixes(s, Min(M) + n + 1, n)

RECURSIVE Pow(_, _)
Pow(b, e) == IF e = 0 THEN 1 ELSE b * Pow(b, e - 1)

\* PrefixGenerator.__init__: alphabet_length ** prefix_length
max_count(prefix_length, alphabet) == Pow(Len(alphabet), prefix_length)

\* the while loop of PrefixGenerator.__iter__ (position is 1-based here)
RECURSIVE FillDigits(_, _, _, _)
FillDigits(digits, position, c, alphabet_length) ==
    IF c = 0 THEN digits
    ELSE FillDigits([digits EXCEPT ![position] = c % alphabet_length],
                    position - 1, c \div alphabet_length, alphabet_length)

\* the string PrefixGenerator yields for a count
PrefixOf(c, prefix_length, alphabet) ==
    LET digits == FillDigits([i \in 1..prefix_length |-> 0], prefix_length,
                             c, Len(alphabet))
    IN [i \in 1..prefix_length |-> alphabet[digits[i] + 1]]

\* the for loop of lines 143-148 from a count on: the first prefix yielded
\* that is not in the set, or the exception when the generator runs out
RECURSIVE FirstUnused(_, _, _, _)
FirstUnused(c, prefix_length, alphabet, non_candidate_prefix_strings) ==
    IF c >= max_count(prefix_length, alphabet)
    THEN [err |-> TRUE, why |-> "This cannot happen"]
    ELSE LET prefix == PrefixOf(c, prefix_length, alphabet)
         IN IF prefix \notin non_candidate_prefix_strings
            THEN [err |-> FALSE, prefix |-> prefix]
            ELSE FirstUnused(c + 1, prefix_length, alphabet, non_candidate_prefix_strings)

autogenerate_empty_prefix(s, prefix_length, alphabet) ==
    LET non_candidate_prefix_strings == findall_prefixes(s, 1, prefix_length)
    IN IF Cardinality(non_candidate_prefix_strings) = Len(alphabet)
       THEN [err |-> TRUE, why |-> "Could not find unused prefix sequence!"]
       ELSE FirstUnused(0, prefix_length, alphabet, non_candidate_prefix_strings)

MaxTextLen == 4

MaxPrefixLen == 2

PrefixChars == {"a", "b", "x", ":", "-"}

Alphabets == {<<"a">>, <<"a","b">>, <<"b","a">>, <<"-","a">>, <<"-">>}

InitPrefix ==
    /\ pc = "start"
    /\ inp \in [text : SeqsUpTo(PrefixChars, MaxTextLen),
                prefix_length : 0..MaxPrefixLen,
                alphabet : Alphabets]
    /\ text = inp.text
    /\ result = NoResult
    /\ PostIdle

\* lines 125-145: the call returns a prefix
AutogenerateReturns ==
    /\ pc = "start"
    /\ LET r == autogenerate_empty_prefix(text, inp.prefix_length, inp.alphabet)
       IN ~r.err /\ result' = r
    /\ pc' = "returned"
    /\ UNCHANGED <<inp, text, postVars>>

\* lines 140 and 148: the call raises
AutogenerateRaises ==
    /\ pc = "start"
    /\ LET r == autogenerate_empty_prefix(text, inp.prefix_length, inp.alphabet)
       IN r.err /\ result' = r
    /\ pc' = "raised"
    /\ UNCHANGED <<inp, text, postVars>>

NextPrefix == AutogenerateReturns \/ AutogenerateRaises

SpecPrefix == InitPrefix /\ [][NextPrefix]_vars

AlphabetSet(alphabet) == {alphabet[i] : i \in 1..Len(alphabet)}

\* what C2 says of a returned prefix
PrefixIsFresh ==
    /\ Len(result.prefix) = inp.prefix_length
    /\ \A i \in 1..Len(result.prefix) : result.prefix[i] \in AlphabetSet(inp.alphabet)
    /\ ~Contains(inp.text, result.prefix \o <<":">>)

\* C2: for every text, length and alphabet, a returned prefix has the
\* length asked for, is drawn from the alphabet, and prefix + ":" occurs
\* nowhere in the text.
C2_PrefixUnique_AnyAlphabet == pc = "returned" => PrefixIsFresh

\* the taken prefixes found in the text
TakenInText == findall_prefixes(inp.text, 1, inp.prefix_length)

\* C3: if some candidate is not taken, the call returns the first such
\* candidate in counting order; it raises only when every candidate is
\* taken.
C3_FailsOnlyOnExhaustion ==
    pc \in {"returned", "raised"} =>
        LET free == {c \in 0..(max_count(inp.prefix_length, inp.alphabet) - 1) :
                       PrefixOf(c, inp.prefix_length, inp.alphabet) \notin TakenInText}
        IN IF free # {}
           THEN /\ pc = "returned"
                /\ result.prefix =
                     PrefixOf(CHOOSE c \in free : \A d \in free : c <= d,
                              inp.prefix_length, inp.alphabet)
           ELSE pc = "raised"

----------------------------------------------------------------------------
(* Text rewriter, steps A and B: replace_empty_prefix                      *)

\* the first position at or after i that holds no \s character
RECURSIVE SkipSpaces(_, _)
SkipSpaces(s, i) ==
    IF i <= Len(s) /\ s[i] \in SpaceChars THEN SkipSpaces(s, i + 1) ELSE i

Schemes == << <<"h","t","t","p">>, <<"h","t","t","p","s">>, <<"f","i","l","e">> >>

\* r'"":(\s*"(?:http|https|file)://)' matched at position i: the position
\* after the match, or 0 when there is no match at i
DeclMatchEnd(s, i) ==
    IF ~StartsWithAt(s, i, <<Q, Q, ":">>) THEN 0
    ELSE LET k == SkipSpaces(s, i + 3)
             fits == {n \in 1..Len(Schemes) :
                        StartsWithAt(s, k, <<Q>> \o Schemes[n] \o <<":","/","/">>)}
         IN IF fits = {} THEN 0
            ELSE LET n == CHOOSE m \in fits : \A o \in fits : m <= o
                 IN k + 1 + Len(Schemes[n]) + 3

\* re.subn of lines 184-187 from position i: the scan goes to the leftmost
\* match, replaces it, and goes on after it; the rewritten text and the
\* number of substitutions
RECURSIVE SubnDeclaration(_, _, _)
SubnDeclaration(s, i, empty_prefix) ==
    LET M == {k \in i..Len(s) : DeclMatchEnd(s, k) # 0}
    IN IF M = {} THEN [text |-> From(s, i), count |-> 0]
       ELSE LET k == Min(M)
                e == DeclMatchEnd(s, k)
                rest == SubnDeclaration(s, e, empty_prefix)
            IN [text  |-> SubSeq(s, i, k - 1) \o <<Q>> \o empty_prefix \o <<Q, ":">>
                           \o SubSeq(s, k + 3, e - 1) \o rest.text,
                count |-> rest.count + 1]

\* the first position at or after i that holds no [\w-] character
RECURSIVE SkipIdentifier(_, _)
SkipIdentifier(s, i) ==
    IF i <= Len(s) /\ s[i] \in WordChars \cup {"-"} THEN SkipIdentifier(s, i + 1) ELSE i

\* r'":([\w-]+)"' matched at position i: the position after the match, or 0
TokenMatchEnd(s, i) ==
    IF ~StartsWithAt(s, i, <<Q, ":">>) THEN 0
    ELSE LET r == SkipIdentifier(s, i + 2)
         IN IF r > i + 2 /\ r <= Len(s) /\ s[r] = Q THEN r + 1 ELSE 0

\* re.sub with count=1: only the first token is rewritten
SubnTokens_first_only(s, i, empty_prefix) ==
    LET M == {k \in i..Len(s) : TokenMatchEnd(s, k) # 0}
    IN IF M = {} THEN [text |-> From(s, i), count |-> 0]
       ELSE LET k == Min(M)
                e == TokenMatchEnd(s, k)
            IN [text  |-> SubSeq(s, i, k - 1) \o <<Q>> \o empty_prefix
                           \o SubSeq(s, k + 1, e - 1) \o From(s, e),
                count |-> 1]

\* re.subn of lines 195-198 from position i
RECURSIVE SubnTokens(_, _, _)
SubnTokens(s, i, empty_prefix) ==
    LET M == {k \in i..Len(s) : TokenMatchEnd(s, k) # 0}
    IN IF M = {} THEN [text |-> From(s, i), count |-> 0]
       ELSE LET k == Min(M)
                e == TokenMatchEnd(s, k)
                rest == SubnTokens(s, e, empty_prefix)
            IN [text  |-> SubSeq(s, i, k - 1) \o <<Q>> \o empty_prefix
                           \o SubSeq(s, k + 1, e - 1) \o rest.text,
                count |-> rest.count + 1]

MultipleFound == [err |-> TRUE,
                  why |-> "Found multiple tokens that look like empty-string contexts"]

\* the tokens are rewritten whatever the count of declarations is
replace_empty_prefix_no_early_return(s, empty_prefix) ==
    LET first == SubnDeclaration(s, 1, empty_prefix)
    IN IF first.count > 1 THEN MultipleFound
       ELSE [err |-> FALSE, text |-> SubnTokens(first.text, 1, empty_prefix).text]

replace_empty_prefix(s, empty_prefix) ==
    LET first == SubnDeclaration(s, 1, empty_prefix)
    IN IF first.count = 0 THEN [err |-> FALSE, text |-> first.text]
       ELSE IF first.count > 1 THEN MultipleFound
       ELSE [err |-> FALSE, text |-> SubnTokens(first.text, 1, empty_prefix).text]

MaxPieces == 3

DeclHttp == <<Q, Q, ":", Q, "h","t","t","p",":","/","/","e", Q>>

DeclFile == <<Q, Q, ":", " ", Q, "f","i","l","e",":","/","/","e", Q>>

ReplacePieces ==
    { DeclHttp, DeclFile,
      <<Q, ":", "a", Q>>,          \* an empty-prefixed token
      <<":", "b", "-", "1", Q>>,   \* completes a token after a closing quote
      <<Q, "k", ":", "c", Q>>,     \* a token with a prefix of its own
      <<Q, Q, ":", "x">>,          \* an empty key that declares nothing
      <<",", NL>> }

EmptyPrefixes == {<<"p">>, <<"a","a","a">>, <<":","x">>}

InitReplace ==
    /\ pc = "start"
    /\ inp \in [text : TextsOf(ReplacePieces, MaxPieces), empty_prefix : EmptyPrefixes]
    /\ text = inp.text
    /\ result = NoResult
    /\ PostIdle

\* lines 152-201, the call returns
ReplaceReturns ==
    /\ pc = "start"
    /\ LET r == replace_empty_prefix(text, inp.empty_prefix)
       IN ~r.err /\ result' = r /\ text' = r.text
    /\ pc' = "returned"
    /\ UNCHANGED <<inp, postVars>>

\* line 191, the call raises
ReplaceRaises ==
    /\ pc = "start"
    /\ LET r == replace_empty_prefix(text, inp.empty_prefix)
       IN r.err /\ result' = r
    /\ pc' = "raised"
    /\ UNCHANGED <<inp, text, postVars>>

NextReplace == ReplaceReturns \/ ReplaceRaises

SpecReplace == InitReplace /\ [][NextReplace]_vars

\* where the empty-prefix declaration pattern occurs in s
DeclPositions(s) == {i \in 1..Len(s) : DeclMatchEnd(s, i) # 0}

\* where the empty-prefixed token shape occurs in s
TokenPositions(s) == {i \in 1..Len(s) : TokenMatchEnd(s, i) # 0}

\* s with ins inserted after each position of P, nothing else changed
RECURSIVE InsertAfter(_, _, _, _)
InsertAfter(s, i, P, ins) ==
    IF i > Len(s) THEN <<>>
    ELSE <<s[i]>> \o (IF i \in P THEN ins ELSE <<>>) \o InsertAfter(s, i + 1, P, ins)

\* the token occurrences met when reading s from position i, an occurrence
\* that begins at the closing quote of the one before it left out
RECURSIVE DisjointTokens(_, _)
DisjointTokens(s, i) ==
    IF i > Len(s) THEN {}
    ELSE IF i \in TokenPositions(s)
         THEN {i} \cup DisjointTokens(s, TokenMatchEnd(s, i))
         ELSE DisjointTokens(s, i + 1)

\* C6: with no declaration the input is returned unchanged and without
\* error, whatever tokens it holds; with two or more, an error is raised
\* and no text is returned.
C6_RewritesOnlyOnOneDeclaration ==
    pc \in {"returned", "raised"} =>
        LET n == Cardinality(DeclPositions(inp.text))
        IN /\ n = 0 => (pc = "returned" /\ result = [err |-> FALSE, text |-> inp.text])
           /\ n >= 2 => (pc = "raised" /\ result.err /\ "text" \notin DOMAIN result)

C6_Witness ==
    /\ pc = "returned"
    /\ DeclPositions(inp.text) = {}
    /\ Cardinality(TokenPositions(inp.text)) >= 2
    /\ result.text = inp.text

\* C9, as stated: with exactly one declaration, every occurrence of the
\* token shape gets the placeholder put after its opening quote, and apart
\* from that and the declaration's key no character changes.
C9_EveryTokenRewritten ==
    (pc = "returned" /\ Cardinality(DeclPositions(inp.text)) = 1) =>
        result.text = InsertAfter(inp.text, 1,
                                  DeclPositions(inp.text) \cup TokenPositions(inp.text),
                                  inp.empty_prefix)

IsWord(s) == \A i \in 1..Len(s) : s[i] \in WordChars

\* C9, amended: the same for a placeholder of word characters and for every
\* occurrence except one that begins at the closing quote of a token
\* already rewritten (occurrences are taken left to right and do not
\* overlap).
C9_EveryDisjointTokenRewritten ==
    (/\ pc = "returned"
     /\ Cardinality(DeclPositions(inp.text)) = 1
     /\ IsWord(inp.empty_prefix)) =>
        result.text = InsertAfter(inp.text, 1,
                                  DeclPositions(inp.text) \cup DisjointTokens(inp.text, 1),
                                  inp.empty_prefix)

C9_Witness ==
    /\ pc = "returned"
    /\ inp.text = <<Q, ":", "a", Q>> \o DeclHttp \o <<Q, ":", "a", Q>>
    /\ inp.empty_prefix = <<"p">>
    /\ result.text = <<Q, "p", ":", "a", Q>>
                        \o <<Q, "p", Q, ":", Q, "h","t","t","p",":","/","/","e", Q>>
                        \o <<Q, "p", ":", "a", Q>>

----------------------------------------------------------------------------
(* Text rewriter, step C: embed_line_numbers                               *)

RECURSIVE SkipBlanks(_, _)
SkipBlanks(s, i) == IF i <= Len(s) /\ s[i] = " " THEN SkipBlanks(s, i + 1) ELSE i

\* the first position at or after i that holds no [\w:#/-] character
RECURSIVE SkipTypeValue(_, _)
SkipTypeValue(s, i) ==
    IF i <= Len(s) /\ s[i] \in WordChars \cup {":", "#", "/", "-"}
    THEN SkipTypeValue(s, i + 1) ELSE i

TypeKey == <<Q, "@", "t", "y", "p", "e", Q, ":">>

\* type_matcher.match(line), r'( *"@type": *")([\w:#/-]+)(",)': whether the
\* line matches at its start, and where groups 1 and 2 end
type_matcher(line) ==
    LET a == SkipBlanks(line, 1)
        b == SkipBlanks(line, a + Len(TypeKey))
        r == SkipTypeValue(line, b + 1)
    IN IF /\ StartsWithAt(line, a, TypeKey)
          /\ b <= Len(line) /\ line[b] = Q
          /\ r > b + 1
          /\ StartsWithAt(line, r, <<Q, ",">>)
       THEN [matches |-> TRUE, group1 |-> SubSeq(line, 1, b),
             group2 |-> SubSeq(line, b + 1, r - 1), group3 |-> <<Q, ",">>, end |-> r + 2]
       ELSE [matches |-> FALSE]

\* '\n'.join(lines)
RECURSIVE Join(_)
Join(ls) ==
    IF Len(ls) = 0 THEN <<>>
    ELSE IF Len(ls) = 1 THEN ls[1]
    ELSE ls[1] \o <<NL>> \o Join(Tail(ls))

\* lines 226-230: the line that replaces a matching line (n is 1-based)
EmbeddedLine(line, n) ==
    LET m == type_matcher(line)
    IN m.group1 \o Encode(m.group2, n) \o m.group3

embed_line_numbers(s) ==
    LET split == SplitLeft(s, <<NL>>)
    IN Join([n \in 1..Len(split) |->
               IF type_matcher(split[n]).matches
               THEN EmbeddedLine(split[n], n)
               ELSE split[n]])

TypeLineT == <<Q, "@", "t", "y", "p", "e", Q, ":", " ", Q, "T", Q, ",">>

TypeLineAB == <<" ", Q, "@", "t", "y", "p", "e", Q, ":", Q, "a", ":", "b", Q, ",">>

EmbedPieces ==
    { TypeLineT, TypeLineAB,
      <<NL>>,
      <<" ">>,
      <<Q, "n", Q, ":", "1", ",">>,
      <<Q, "@", "t", "y", "p", "e", Q, ":", " ", Q, "a", " ", "b", Q, ",">> }

InitEmbed ==
    /\ pc = "start"
    /\ inp \in [text : TextsOf(EmbedPieces, MaxPieces)]
    /\ text = inp.text
    /\ result = NoResult
    /\ PostIdle

\* lines 204-233
EmbedLineNumbers ==
    /\ pc = "start"
    /\ text' = embed_line_numbers(text)
    /\ result' = [err |-> FALSE, text |-> text']
    /\ pc' = "returned"
    /\ UNCHANGED <<inp, postVars>>

NextEmbed == EmbedLineNumbers

SpecEmbed == InitEmbed /\ [][NextEmbed]_vars

\* C7: a line at 1-based position i that has the type-declaration shape
\* comes out with _LINE_i put directly after its value and every other
\* character of the line, before and after, as it was; any other line comes
\* out as it was; the number of lines does not change.
C7_RestOfLineIntact ==
    pc = "returned" =>
        LET before == SplitLeft(inp.text, <<NL>>)
            after  == SplitLeft(result.text, <<NL>>)
        IN /\ Len(after) = Len(before)
           /\ \A i \in 1..Len(before) :
                LET m == type_matcher(before[i])
                IN IF m.matches
                   THEN after[i] = m.group1 \o m.group2 \o SEP \o Str(i)
                                     \o From(before[i], Len(m.group1) + Len(m.group2) + 1)
                   ELSE after[i] = before[i]

----------------------------------------------------------------------------
(* precondition                                                            *)

DEFAULT_PREFIX_LENGTH == 3

DEFAULT_ALPHABET == <<"a","b","c","d","e","f","g","h","i","j","k","l","m",
                      "n","o","p","q","r","s","t","u","v","w","x","y","z">>

\* lines 26-50; prefix_given is "prefix is not None"
precondition(s, prefix_given, prefix) ==
    LET chosen == IF prefix_given THEN [err |-> FALSE, prefix |-> prefix]
                  ELSE autogenerate_empty_prefix(s, DEFAULT_PREFIX_LENGTH, DEFAULT_ALPHABET)
    IN IF chosen.err THEN chosen
       ELSE LET replaced == replace_empty_prefix(s, chosen.prefix)
            IN IF replaced.err THEN replaced
               ELSE [err |-> FALSE, text |-> embed_line_numbers(replaced.text)]

----------------------------------------------------------------------------
(* Graph terms, as the normalizer reads them                               *)

Literal(value, datatype) ==
    [kind |-> "Literal", value |-> value, typed |-> TRUE, datatype |-> datatype]

PlainLiteral(value) ==
    [kind |-> "Literal", value |-> value, typed |-> FALSE, datatype |-> <<>>]

URIRef(value) ==
    [kind |-> "URIRef", value |-> value, typed |-> FALSE, datatype |-> <<>>]

BNode(value) ==
    [kind |-> "BNode", value |-> value, typed |-> FALSE, datatype |-> <<>>]

\* the truth value of obj.datatype: neither None nor the empty string
HasDatatype(obj) == obj.typed /\ obj.datatype # <<>>

\* the truth value of a decoded number: neither None nor 0
Truthy(e) == ~e.none /\ e.number # 0

HasColon(s) == \E i \in 1..Len(s) : s[i] = ":"

FirstColon(s) == CHOOSE i \in 1..Len(s) : s[i] = ":" /\ \A j \in 1..(i - 1) : s[j] # ":"

\* value.split(':', 1)
SplitFirstColon(s) ==
    IF HasColon(s)
    THEN <<SubSeq(s, 1, FirstColon(s) - 1), From(s, FirstColon(s) + 1)>>
    ELSE <<s>>

\* line_numbers[subject] = number
Record(table, subject, number) ==
    [x \in DOMAIN table \cup {subject} |-> IF x = subject THEN number ELSE table[x]]

\* lines 76-80
StripDatatype(st, subject) ==
    IF st.err \/ ~(st.obj.kind = "Literal" /\ HasDatatype(st.obj)) THEN st
    ELSE LET e == extract_line_number(st.obj.datatype)
         IN IF e.err THEN [st EXCEPT !.err = TRUE]
            ELSE IF Truthy(e)
            THEN [err |-> FALSE, obj |-> Literal(st.obj.value, e.stripped),
                  table |-> Record(st.table, subject, e.number)]
            ELSE st

\* lines 84-89
ExpandPrefix(st, ctx) ==
    IF st.err \/ ~(st.obj.kind = "Literal" /\ ~HasDatatype(st.obj)) THEN st
    ELSE LET parts == SplitFirstColon(st.obj.value)
         IN IF Len(parts) > 1 /\ parts[1] \in DOMAIN ctx
            THEN [st EXCEPT !.obj = URIRef(ctx[parts[1]] \o parts[2])]
            ELSE st

\* lines 93-97
StripReference(st, subject) ==
    IF st.err \/ st.obj.kind # "URIRef" THEN st
    ELSE LET e == extract_line_number(st.obj.value)
         IN IF e.err THEN [st EXCEPT !.err = TRUE]
            ELSE IF Truthy(e)
            THEN [err |-> FALSE, obj |-> URIRef(e.stripped),
                  table |-> Record(st.table, subject, e.number)]
            ELSE st

\* lines 74-97, the body of the loop for one triple
Normalize(triple, ctx, table) ==
    StripReference(
        ExpandPrefix(
            StripDatatype([err |-> FALSE, obj |-> triple.o, table |-> table], triple.s),
            ctx),
        triple.s)

\* lines 72-102, one turn of the loop; the graph yields its triples in no
\* fixed order
VisitTriple ==
    /\ pc = "post"
    /\ \E t \in graph :
         LET st == Normalize(t, context, line_numbers)
         IN /\ ~st.err
            /\ new_graph' = new_graph \cup {[s |-> t.s, p |-> t.p, o |-> st.obj]}
            /\ line_numbers' = st.table
            /\ hist' = hist \cup {[in |-> t, out |-> st.obj]}
            /\ graph' = graph \ {t}
    /\ UNCHANGED <<pc, inp, text, result, context>>

\* line 122 under lines 77 and 94: int() raises ValueError, which nothing
\* catches
VisitRaises ==
    /\ pc = "post"
    /\ \E t \in graph : Normalize(t, context, line_numbers).err
    /\ pc' = "raised"
    /\ result' = [err |-> TRUE, why |-> "ValueError"]
    /\ UNCHANGED <<inp, text, postVars>>

\* line 104
ReturnGraph ==
    /\ pc = "post"
    /\ graph = {}
    /\ pc' = "returned"
    /\ result' = [err |-> FALSE, new_graph |-> new_graph, line_numbers |-> line_numbers]
    /\ UNCHANGED <<inp, text, postVars>>

----------------------------------------------------------------------------
(* postcondition on graphs of its own                                      *)

MaxTriples == 2

MaxSuffixNo == 1

\* nothing, _LINE_<n>, and a suffix that is no number
Suffixes == {<<>>, SEP \o <<"x">>} \cup {SEP \o Str(n) : n \in 0..MaxSuffixNo}

RefTexts == {<<"e","/","T">> \o suf : suf \in Suffixes}

PlainValues == {<<"T">>, <<"k",":","T">>, <<"k",":","T">> \o SEP \o <<"1">>, <<"x",":","T">>}

Datatypes == {stem \o suf : stem \in {<<"e","/","d">>, <<>>}, suf \in Suffixes} \ {<<>>}

Objects ==
    {URIRef(v) : v \in RefTexts}
      \cup {PlainLiteral(v) : v \in PlainValues}
      \cup {Literal(v, d) : v \in {<<"k",":","T">>, <<"5">>}, d \in Datatypes}
      \cup {BNode(<<"b">>)}

Triples == [s : {"s1", "s2"}, p : {"p"}, o : Objects]

Contexts == {EmptyTable, [k \in {<<"k">>} |-> <<"e","/">>]}

RECURSIVE SubsetsUpTo(_, _)
SubsetsUpTo(S, n) ==
    IF n = 0 THEN {{}}
    ELSE LET smaller == SubsetsUpTo(S, n - 1)
         IN smaller \cup {g \cup {x} : g \in smaller, x \in S}

InitPost ==
    /\ pc = "post"
    /\ inp \in [graph : SubsetsUpTo(Triples, MaxTriples), context : Contexts]
    /\ text = <<>>
    /\ result = NoResult
    /\ graph = inp.graph
    /\ context = inp.context
    /\ new_graph = {}
    /\ line_numbers = EmptyTable
    /\ hist = {}

NextPost == VisitTriple \/ VisitRaises \/ ReturnGraph

SpecPost == InitPost /\ [][NextPost]_vars

\* the object is an undatatyped literal whose text before its first colon
\* is a key of the context
Promotable(obj) ==
    /\ obj.kind = "Literal"
    /\ ~obj.typed
    /\ HasColon(obj.value)
    /\ SplitFirstColon(obj.value)[1] \in DOMAIN context

Promoted(obj) ==
    context[SplitFirstColon(obj.value)[1]] \o SplitFirstColon(obj.value)[2]

\* the text ends in _LINE_<n>, n an integer the codec decodes
Carries(s) == Contains(s, SEP) /\ ~PyInt(From(s, LastIndexOf(s, SEP) + Len(SEP))).err

\* the text without its suffix
Stripped(s) == IF Carries(s) THEN SubSeq(s, 1, LastIndexOf(s, SEP) - 1) ELSE s

\* C8: a literal is replaced by a reference if and only if it has no
\* datatype and its text before the first colon is a key of the context;
\* the reference is the expansion followed by the text after that colon,
\* its suffix stripped; a literal with a datatype never becomes a reference.
C8_PromotionOnlyOfUndatatyped ==
    \A h \in hist :
        /\ (h.in.o.kind = "Literal" /\ h.out.kind = "URIRef") <=> Promotable(h.in.o)
        /\ Promotable(h.in.o) => h.out.value = Stripped(Promoted(h.in.o))
        /\ (h.in.o.kind = "Literal" /\ h.in.o.typed) => h.out.kind # "URIRef"

\* the object C10 expects for an input object that carries a suffix
Cleaned(obj) ==
    IF obj.kind = "Literal" /\ obj.typed THEN Literal(obj.value, Stripped(obj.datatype))
    ELSE IF Promotable(obj) THEN URIRef(Stripped(Promoted(obj)))
    ELSE URIRef(Stripped(obj.value))

CarriesSuffix(obj) ==
    \/ obj.kind = "Literal" /\ obj.typed /\ Carries(obj.datatype)
    \/ obj.kind = "URIRef" /\ Carries(obj.value)
    \/ Promotable(obj) /\ Carries(Promoted(obj))

\* C10: for every input triple whose datatype or reference text carries
\* _LINE_<n>, the output graph holds the triple with the suffix stripped,
\* the table has an entry for its subject, and no datatype or reference of
\* the output graph still carries a suffix.
C10_EverySuffixRemovedAndRecorded ==
    pc = "returned" =>
        /\ \A t \in inp.graph :
             CarriesSuffix(t.o) =>
                 /\ [s |-> t.s, p |-> t.p, o |-> Cleaned(t.o)] \in new_graph
                 /\ t.s \in DOMAIN line_numbers
        /\ \A u \in new_graph :
             /\ (u.o.kind = "Literal" /\ u.o.typed) => ~Carries(u.o.datatype)
             /\ u.o.kind = "URIRef" => ~Carries(u.o.value)

----------------------------------------------------------------------------
(* The ingest collaborator, for documents written one statement a line     *)

\* the positions of the double quotes of a line, in order
QuotesOf(line) ==
    LET P == {i \in 1..Len(line) : line[i] = Q}
        RECURSIVE Sorted(_)
        Sorted(R) == IF R = {} THEN <<>>
                     ELSE LET m == CHOOSE x \in R : \A y \in R : x <= y
                          IN <<m>> \o Sorted(R \ {m})
    IN Sorted(P)

\* a line of the form "key": "value": its key and its value
IsStatement(line) == Len(QuotesOf(line)) >= 4

KeyOf(line) == SubSeq(line, QuotesOf(line)[1] + 1, QuotesOf(line)[2] - 1)

ValueOf(line) == SubSeq(line, QuotesOf(line)[3] + 1, QuotesOf(line)[4] - 1)

IdKey == <<"@", "i", "d">>

TypeName == <<"@", "t", "y", "p", "e">>

IsKeyLine(line, key) == IsStatement(line) /\ KeyOf(line) = key

\* a line that binds a prefix to a namespace
IsContextLine(line) ==
    /\ IsStatement(line)
    /\ KeyOf(line) \notin {IdKey, TypeName}
    /\ \E n \in 1..Len(Schemes) :
         StartsWithAt(ValueOf(line), 1, Schemes[n] \o <<":","/","/">>)

\* the parsed @context of a text
ParseContext(s) ==
    LET ls == SplitLeft(s, <<NL>>)
        keys == {KeyOf(ls[i]) : i \in {j \in 1..Len(ls) : IsContextLine(ls[j])}}
    IN [k \in keys |->
          ValueOf(ls[CHOOSE i \in 1..Len(ls) : IsContextLine(ls[i]) /\ KeyOf(ls[i]) = k])]

\* the subject of the node that line i belongs to: the @id stated last
\* before it
SubjectAt(ls, i) ==
    LET ids == {j \in 1..(i - 1) : IsKeyLine(ls[j], IdKey)}
    IN IF ids = {} THEN <<"_", ":", "b">>
       ELSE ValueOf(ls[CHOOSE j \in ids : \A k \in ids : k <= j])

\* a compact IRI expanded with the context, any other value kept
ExpandIri(v, ctx) ==
    LET parts == SplitFirstColon(v)
    IN IF Len(parts) > 1 /\ parts[1] \in DOMAIN ctx
       THEN ctx[parts[1]] \o parts[2] ELSE v

\* the @type statements of a text, each with its 1-based line
TypeStatements(s) ==
    LET ls == SplitLeft(s, <<NL>>)
    IN {[line |-> i, subject |-> SubjectAt(ls, i), value |-> ValueOf(ls[i])] :
          i \in {j \in 1..Len(ls) : IsKeyLine(ls[j], TypeName)}}

\* the triples of a text: one rdf:type triple for each @type statement
ParseGraph(s) ==
    {[s |-> st.subject, p |-> "rdf:type", o |-> URIRef(ExpandIri(st.value, ParseContext(s)))] :
        st \in TypeStatements(s)}

----------------------------------------------------------------------------
(* The pipeline: precondition, the ingest, postcondition                   *)

MaxNodes == 2

MaxDeclarations == 2

TypeValues == {<<"T">>, <<":", "T">>, <<"T">> \o SEP \o <<"2">>, <<"T">> \o SEP \o <<"x">>}

SubjectNames == {<<"s", "1">>, <<"s", "2">>}

IdLine(subject) == <<Q, "@", "i", "d", Q, ":", " ", Q>> \o subject \o <<Q, ",">>

TypeLine(value) == <<Q, "@", "t", "y", "p", "e", Q, ":", " ", Q>> \o value \o <<Q, ",">>

\* a node object: its @id, its @type, one more property
NodeLines(node) ==
    << <<"{">>, IdLine(node.subject), TypeLine(node.type), <<Q, "n", Q, ":", "1">>, <<"}">> >>

RECURSIVE DocumentLines(_)
DocumentLines(nodes) ==
    IF nodes = <<>> THEN <<>> ELSE NodeLines(Head(nodes)) \o DocumentLines(Tail(nodes))

\* the document: the empty-prefix declarations, then the nodes
Document(declarations, nodes) ==
    Join([i \in 1..declarations |-> DeclHttp \o <<",">>] \o DocumentLines(nodes))

Init ==
    /\ pc = "start"
    /\ \E d \in 0..MaxDeclarations,
          nodes \in SeqsUpTo([subject : SubjectNames, type : TypeValues], MaxNodes),
          given \in BOOLEAN :
         inp = [text |-> Document(d, nodes), prefix_given |-> given, prefix |-> <<"p">>]
    /\ text = inp.text
    /\ result = NoResult
    /\ PostIdle

\* lines 26-50, the call returns
PreconditionReturns ==
    /\ pc = "start"
    /\ LET r == precondition(text, inp.prefix_given, inp.prefix)
       IN ~r.err /\ text' = r.text
    /\ pc' = "parse"
    /\ UNCHANGED <<inp, result, postVars>>

\* lines 41 and 44, the call raises
PreconditionRaises ==
    /\ pc = "start"
    /\ LET r == precondition(text, inp.prefix_given, inp.prefix)
       IN r.err /\ result' = r
    /\ pc' = "raised"
    /\ UNCHANGED <<inp, text, postVars>>

\* the ingest of the rewritten text; postcondition starts on its graph
Parse ==
    /\ pc = "parse"
    /\ graph' = ParseGraph(text)
    /\ context' = ParseContext(text)
    /\ pc' = "post"
    /\ UNCHANGED <<inp, text, result, new_graph, line_numbers, hist>>

Next ==
    \/ PreconditionReturns
    \/ PreconditionRaises
    \/ Parse
    \/ VisitTriple
    \/ VisitRaises
    \/ ReturnGraph

Spec == Init /\ [][Next]_vars

\* C1: for a document with at most one empty-prefix declaration, the run
\* ends with a table in which every @type statement's 1-based line is
\* recorded for the subject of that statement, also when a subject has
\* more than one @type statement.
C1_RoundTripLineNumbers ==
    (pc \in {"returned", "raised"} /\ Cardinality(DeclPositions(inp.text)) <= 1) =>
        /\ pc = "returned"
        /\ \A st \in TypeStatements(inp.text) :
             /\ st.subject \in DOMAIN line_numbers
             /\ line_numbers[st.subject] = st.line

====
